---------------------------- MODULE Spec2Model ----------------------------
(***************************************************************************)
(* Model of src/lib/charm/vault.py: the leader-coordinated bootstrap of a  *)
(* vault server (initialise, unseal, provision charm access) and the       *)
(* restart gate.                                                           *)
(*                                                                         *)
(* Every unit of the application runs the functions of vault.py on its own *)
(* machine: host.service_* act on the machine's own vault service and      *)
(* VAULT_LOCALHOST_URL is the machine's own server process.  Whether the   *)
(* service runs, whether the server answers, whether it is sealed and how  *)
(* far its unseal has got are therefore per unit.  The server processes    *)
(* are peers over one storage: whether the vault is initialised, its root  *)
(* token and keys, its auth backends, policies, roles and mounts are       *)
(* shared, and so is the leader database (hookenv.leader_get/leader_set).  *)
(* Each function is split into one action per external call (service       *)
(* query, HTTP request, leader query, leader database access), since those *)
(* are the points where the passes of different units interleave.          *)
(***************************************************************************)
EXTENDS Naturals, Sequences, FiniteSets, TLC

(***************************************************************************)
(* Bounds of the model.                                                    *)
(***************************************************************************)
MaxCalls == 4           \* calls of the functions of vault.py (all units)
MaxLeaderChanges == 1   \* leadership changes

Units == {"vault/0", "vault/1"}

(***************************************************************************)
(* Program constants.                                                      *)
(***************************************************************************)
CHARM_ACCESS_ROLE == "local-charm-access"
CHARM_ACCESS_ROLE_ID == "local-charm-access-id"
CHARM_POLICY_NAME == "local-charm-policy"
CHARM_POLICY == "CHARM_POLICY"
MaxAttempts == 10       \* tenacity.stop_after_attempt(10)
WaitMultiplier == 1     \* tenacity.wait_exponential(multiplier=1, ...)
WaitMax == 10           \* tenacity.wait_exponential(..., max=10)
Shares == 1             \* initialize_vault(shares=1, ...)
Threshold == 1          \* initialize_vault(..., threshold=1)

None == "None"
Quote == "\""

(***************************************************************************)
(* Values the server can hand out at initialisation, and the tokens an     *)
(* operator can pass to setup_charm_vault_access.  A key is a sequence of  *)
(* characters.                                                             *)
(***************************************************************************)
RootTokenPool == {"s.root"}
KeyPool == {<<"a", "1">>, <<"b", "2">>}
TokenArgs == {None, "s.root", "s.bogus"}
BackendNames == {"charm-foo", "charm-bar"}
ShareArgs == {<<1, 1>>, <<2, 1>>, <<2, 2>>}     \* shares, threshold
PolicyNames == {"charm-foo", CHARM_POLICY_NAME}
HclPool == {"path \"charm-foo/*\" { capabilities = [\"read\"] }", "path \"x\" {}"}
RoleNames == {"charm-foo", CHARM_ACCESS_ROLE}
CidrPool == {"10.0.0.5/32"}
PolicyLists == {<<"charm-foo">>, <<"other">>}

RECURSIVE SeqsOfLen(_, _)
SeqsOfLen(S, n) ==
    IF n = 0 THEN {<<>>}
    ELSE {Append(s, x) : s \in SeqsOfLen(S, n - 1), x \in S}

KeyLists(n) == {ks \in SeqsOfLen(KeyPool, n) :
                   \A i, j \in 1..n : i # j => ks[i] # ks[j]}

(***************************************************************************)
(* json.dumps / json.loads of a list of strings, character by character.   *)
(***************************************************************************)
RECURSIVE JoinKeys(_)
JoinKeys(ks) ==
    IF ks = <<>> THEN <<>>
    ELSE <<Quote>> \o Head(ks) \o <<Quote>>
         \o (IF Len(ks) > 1 THEN <<",", " ">> ELSE <<>>)
         \o JoinKeys(Tail(ks))

json_dumps(ks) == <<"[">> \o JoinKeys(ks) \o <<"]">>

RECURSIVE ParseKeys(_, _, _, _, _)
ParseKeys(text, i, inStr, cur, acc) ==
    IF i > Len(text) THEN acc
    ELSE IF inStr
         THEN IF text[i] = Quote
              THEN ParseKeys(text, i + 1, FALSE, <<>>, Append(acc, cur))
              ELSE ParseKeys(text, i + 1, TRUE, Append(cur, text[i]), acc)
         ELSE IF text[i] = Quote
              THEN ParseKeys(text, i + 1, TRUE, <<>>, acc)
              ELSE ParseKeys(text, i + 1, FALSE, cur, acc)

json_loads(text) == ParseKeys(text, 1, FALSE, <<>>, <<>>)

(***************************************************************************)
(* State.                                                                  *)
(***************************************************************************)
VARIABLES
    running,    \* per unit: host.service_running('vault')
    config,     \* hookenv.config('totally-unsecure-auto-unlock')
    vault,      \* the servers behind VAULT_LOCALHOST_URL and their storage
    leaderdb,   \* the leader database: present keys only
    leader,     \* the unit for which hookenv.is_leader() is true
    u,          \* per unit: the running function, its position and locals
    hist        \* bounded counters of what has happened

vars == <<running, config, vault, leaderdb, leader, u, hist>>

NoHealth == [initialized |-> FALSE, sealed |-> FALSE]
NoResult == [root_token |-> None, keys |-> <<>>]

\* A unit that runs nothing.  The second group of fields records the last
\* pass or call of the unit and is reset when the next one starts.
IdleUnit ==
    [op |-> "none", pc |-> "idle",
     health |-> NoHealth, attempts |-> 0, result |-> NoResult,
     keys |-> <<>>, i |-> 0, tokarg |-> None, token |-> None,
     safe_restart |-> FALSE,
     outcome |-> "none", ret |-> None, probed |-> NoHealth,
     nInit |-> 0, nWrite |-> 0, nUnseal |-> 0, nProv |-> 0,
     leaderNo |-> FALSE, leaderYes |-> FALSE, exhausted |-> FALSE,
     provSealed |-> FALSE, missingKeys |-> FALSE, readStore |-> FALSE,
     queries |-> <<>>, name |-> None, wait |-> 0,
     shares |-> Shares, threshold |-> Threshold,
     keysarg |-> <<>>, sent |-> <<>>, readKeys |-> FALSE,
     afterLoss |-> FALSE, acted |-> "none", hitReady |-> FALSE,
     hcl |-> None, cidr |-> None, policies |-> <<>>]

VaultInit ==
    [reachable |-> [p \in Units |-> FALSE], initialized |-> FALSE,
     sealed |-> [p \in Units |-> TRUE],
     root_token |-> None, keys |-> <<>>, threshold |-> 0,
     progress |-> [p \in Units |-> {}],
     auth |-> {}, policies |-> <<>>, roles |-> <<>>, nextRoleId |-> 1,
     mounts |-> {}]

HistInit ==
    [initRecv |-> 0, initOk |-> 0, leaderChanges |-> 0,
     passes |-> 0, setups |-> 0, restarts |-> 0, gates |-> 0,
     enables |-> 0, setupsOk |-> 0,
     configures |-> 0, overlap |-> FALSE, mounts0 |-> {},
     inits |-> 0, unseals |-> 0,
     enableCalls |-> [n \in BackendNames |-> 0]]

Init ==
    /\ running = [p \in Units |-> FALSE]
    /\ config \in BOOLEAN
    /\ vault = VaultInit
    /\ leaderdb = <<>>
    /\ leader \in Units
    /\ u = [p \in Units |-> IdleUnit]
    /\ hist = HistInit

(***************************************************************************)
(* Helpers.                                                                *)
(***************************************************************************)
\* The server of unit p answers HTTP requests.
Up(p) == running[p] /\ vault.reachable[p]

\* hookenv.is_leader() on unit p
is_leader(p) == leader = p

\* hookenv.leader_get(attribute): None when the attribute is absent
leader_get(k) == IF k \in DOMAIN leaderdb THEN leaderdb[k] ELSE None

\* Python truthiness of an optional string argument
Falsy(x) == x = None \/ x = ""

\* The function of unit p ends (it returns or raises): its locals are gone,
\* the record of what it did is what its caller sees.
Ended(loc, out) ==
    [loc EXCEPT !.pc = "done", !.outcome = out, !.health = NoHealth,
                !.result = NoResult, !.keys = <<>>, !.i = 0]

\* The calls made so far, and whether one more may start.
Calls == hist.passes + hist.setups + hist.restarts + hist.gates
         + hist.configures + hist.inits + hist.unseals

MayCall(p) == u[p].pc = "idle" /\ Calls < MaxCalls

\* The server is initialised, its keys are not in the leader database and
\* no unit is between lines 219 and 221 any more: the unit that initialised
\* it stopped before its leader_set took effect.
LostWrite ==
    /\ vault.initialized
    /\ "keys" \notin DOMAIN leaderdb
    /\ \A p \in Units : u[p].pc # "init_write"

\* The server of unit p accepts an administrative request made with token
\* tok.
Authorized(p, tok) ==
    vault.initialized /\ ~vault.sealed[p] /\ tok = vault.root_token

\* AfterInitialize that unseals whatever the probed health says
AfterInitialize_AlwaysUnseal(health) == "unseal_read"

\* a pass that goes on to line 205 without unsealing
AfterInitialize_NeverUnseal(health) == "chk_leader"

\* The place prepare_vault continues at after line 201-202: line 203.
AfterInitialize(health) == IF health.sealed THEN "unseal_read" ELSE "chk_leader"

\* The answer of the server of unit p to unseal(key): a key the vault
\* issued counts towards the threshold; at the threshold the server is
\* unsealed.  An unsealed server ignores the call.
VaultUnseal(v, p, key) ==
    IF v.sealed[p] /\ (\E n \in 1..Len(v.keys) : v.keys[n] = key)
    THEN LET prog == v.progress[p] \cup {key}
         IN  IF Cardinality(prog) >= v.threshold
             THEN [v EXCEPT !.sealed[p] = FALSE, !.progress[p] = {}]
             ELSE [v EXCEPT !.progress[p] = prog]
    ELSE v

\* The server process of unit p after a (re)start: sealed, not yet
\* answering.
VaultRestarted(v, p) ==
    [v EXCEPT !.reachable[p] = FALSE, !.sealed[p] = TRUE, !.progress[p] = {}]

(***************************************************************************)
(* prepare_vault (lines 191-206).                                          *)
(***************************************************************************)
\* lines 197-199: a pass defers at once when the service is not running
PassEntry(p) ==
    LET loc == [IdleUnit EXCEPT !.op = "prepare_vault", !.afterLoss = LostWrite]
    IN  IF ~running[p] THEN Ended(loc, "deferred") ELSE [loc EXCEPT !.pc = "probe"]

PrepareStart(p) ==
    /\ MayCall(p)
    /\ hist' = [hist EXCEPT !.passes = @ + 1]
    /\ u' = [u EXCEPT ![p] = PassEntry(p)]
    /\ UNCHANGED <<running, config, vault, leaderdb, leader>>

\* A pass of a unit that runs pass after pass, uncounted
PrepareAgain(p) ==
    /\ u[p].pc = "idle"
    /\ u' = [u EXCEPT ![p] = PassEntry(p)]
    /\ UNCHANGED <<running, config, vault, leaderdb, leader, hist>>

Min(a, b) == IF a <= b THEN a ELSE b

\* wait_exponential without its max
wait_exponential_NoMax(attempt_number) ==
    WaitMultiplier * 2 ^ (attempt_number - 1)

\* line 167: tenacity.wait_exponential(multiplier=1, max=10), the wait after
\* failed attempt attempt_number
wait_exponential(attempt_number) ==
    Min(WaitMultiplier * 2 ^ (attempt_number - 1), WaitMax)

\* RetryOrRaise that, at the attempt cap, carries on as if the server had
\* answered "uninitialised, sealed" instead of raising
RetryOrRaise_AssumeSealed(loc) ==
    IF loc.attempts + 1 >= MaxAttempts
    THEN [loc EXCEPT !.attempts = @ + 1, !.exhausted = TRUE,
                     !.health = [initialized |-> FALSE, sealed |-> TRUE],
                     !.pc = "chk_init"]
    ELSE [loc EXCEPT !.attempts = @ + 1,
                     !.wait = wait_exponential(loc.attempts + 1)]

\* The retry decorator of get_vault_health after a failed attempt: raise
\* the transport error at the attempt cap, else sleep and try again.
RetryOrRaise(loc) ==
    IF loc.attempts + 1 >= MaxAttempts
    THEN Ended([loc EXCEPT !.attempts = @ + 1, !.exhausted = TRUE], "ConnectionError")
    ELSE [loc EXCEPT !.attempts = @ + 1,
                     !.wait = wait_exponential(loc.attempts + 1)]

\* lines 167-178 and 200: one attempt of get_vault_health
GetVaultHealth(p) ==
    /\ u[p].pc = "probe"
    /\ u' = [u EXCEPT ![p] =
                IF Up(p)
                THEN LET h == [initialized |-> vault.initialized, sealed |-> vault.sealed[p]]
                     IN  [@ EXCEPT !.attempts = 0, !.wait = 0,
                                   !.health = h, !.probed = h,
                                   !.pc = "chk_init"]
                ELSE RetryOrRaise(@)]
    /\ UNCHANGED <<running, config, vault, leaderdb, leader, hist>>

\* MayInitialize without the leadership test of line 201
MayInitialize_NoLeaderCheck(p, health) == ~health.initialized

\* MayInitialize without the health test of line 201
MayInitialize_NoHealthCheck(p, health) == is_leader(p)

\* line 201: the condition under which the pass initialises the server
MayInitialize(p, health) == ~health.initialized /\ is_leader(p)

\* line 201: is_leader() is queried only when the probe said uninitialised
CheckInitialized(p) ==
    /\ u[p].pc = "chk_init"
    /\ LET asked == ~u[p].health.initialized
       IN  u' = [u EXCEPT ![p] =
                    [@ EXCEPT !.leaderYes = @ \/ (asked /\ is_leader(p)),
                              !.leaderNo = @ \/ (asked /\ ~is_leader(p)),
                              !.pc = IF MayInitialize(p, u[p].health)
                                     THEN "init_call"
                                     ELSE AfterInitialize(u[p].health)]]
    /\ UNCHANGED <<running, config, vault, leaderdb, leader, hist>>

\* InitializeCall that takes the refusal of an initialised server for a
\* result and goes on to publish it
InitializeCall_IgnoreRefusal(p) ==
    /\ u[p].pc = "init_call"
    /\ IF ~Up(p)
       THEN /\ u' = [u EXCEPT ![p] = Ended([@ EXCEPT !.nInit = @ + 1], "ConnectionError")]
            /\ UNCHANGED <<vault, hist>>
       ELSE IF vault.initialized
       THEN /\ \E rt \in RootTokenPool, ks \in KeyLists(u[p].shares) :
                 u' = [u EXCEPT ![p] = [@ EXCEPT !.nInit = @ + 1,
                                                 !.result = [root_token |-> rt, keys |-> ks],
                                                 !.pc = "init_write"]]
            /\ hist' = [hist EXCEPT !.initRecv = @ + 1]
            /\ UNCHANGED vault
       ELSE \E rt \in RootTokenPool, ks \in KeyLists(u[p].shares) :
            /\ vault' = [vault EXCEPT !.initialized = TRUE, !.root_token = rt,
                                      !.keys = ks, !.threshold = u[p].threshold]
            /\ u' = [u EXCEPT ![p] = [@ EXCEPT !.nInit = @ + 1,
                                               !.result = [root_token |-> rt, keys |-> ks],
                                               !.pc = "init_write"]]
            /\ hist' = [hist EXCEPT !.initRecv = @ + 1, !.initOk = @ + 1]
    /\ UNCHANGED <<running, config, leaderdb, leader>>

\* lines 218-220: client.initialize(shares, threshold).  Line 220 sets the
\* token of the client of initialize_vault itself, which no later call uses.
InitializeCall(p) ==
    /\ u[p].pc = "init_call"
    /\ IF ~Up(p)
       THEN /\ u' = [u EXCEPT ![p] = Ended([@ EXCEPT !.nInit = @ + 1], "ConnectionError")]
            /\ UNCHANGED <<vault, hist>>
       ELSE IF vault.initialized
       THEN /\ u' = [u EXCEPT ![p] = Ended([@ EXCEPT !.nInit = @ + 1], "VaultError")]
            /\ hist' = [hist EXCEPT !.initRecv = @ + 1]
            /\ UNCHANGED vault
       ELSE \E rt \in RootTokenPool, ks \in KeyLists(u[p].shares) :
            /\ vault' = [vault EXCEPT !.initialized = TRUE, !.root_token = rt,
                                      !.keys = ks, !.threshold = u[p].threshold]
            /\ u' = [u EXCEPT ![p] = [@ EXCEPT !.nInit = @ + 1,
                                               !.result = [root_token |-> rt, keys |-> ks],
                                               !.pc = "init_write"]]
            /\ hist' = [hist EXCEPT !.initRecv = @ + 1, !.initOk = @ + 1]
    /\ UNCHANGED <<running, config, leaderdb, leader>>

\* InitializeKwargs that publishes the keys last first
InitializeKwargs_Reversed(result) ==
    ("root_token" :> result.root_token)
    @@ ("keys" :> json_dumps([n \in 1..Len(result.keys) |->
                                result.keys[Len(result.keys) + 1 - n]]))

\* lines 221-223: the attributes initialize_vault publishes
InitializeKwargs(result) ==
    ("root_token" :> result.root_token) @@ ("keys" :> json_dumps(result.keys))

\* line 209: initialize_vault(shares, threshold) called on its own
InitializeVaultStart(p, shares, threshold) ==
    /\ MayCall(p)
    /\ hist' = [hist EXCEPT !.inits = @ + 1]
    /\ u' = [u EXCEPT ![p] = [IdleUnit EXCEPT !.op = "initialize_vault",
                                              !.pc = "init_call",
                                              !.shares = shares,
                                              !.threshold = threshold]]
    /\ UNCHANGED <<running, config, vault, leaderdb, leader>>

\* line 223 is the end of initialize_vault: back in prepare_vault at line
\* 203, or back at the caller
AfterLeaderSet(loc) ==
    IF loc.op = "initialize_vault" THEN Ended(loc, "returned")
    ELSE [loc EXCEPT !.pc = AfterInitialize(loc.health)]

\* lines 221-223: hookenv.leader_set.  The leader database takes the write
\* of the leader; the write of a unit that lost leadership since line 201
\* is rejected or taken.
LeaderSet(p) ==
    /\ u[p].pc = "init_write"
    /\ \/ /\ is_leader(p)
          /\ leaderdb' = InitializeKwargs(u[p].result) @@ leaderdb
          /\ u' = [u EXCEPT ![p] = AfterLeaderSet([@ EXCEPT !.nWrite = @ + 1])]
       \/ /\ ~is_leader(p)
          /\ leaderdb' = InitializeKwargs(u[p].result) @@ leaderdb
          /\ u' = [u EXCEPT ![p] = AfterLeaderSet([@ EXCEPT !.nWrite = @ + 1])]
       \/ /\ ~is_leader(p)
          /\ u' = [u EXCEPT ![p] = Ended([@ EXCEPT !.nWrite = @ + 1], "LeaderSetError")]
          /\ UNCHANGED leaderdb
    /\ UNCHANGED <<running, config, vault, leader, hist>>

\* line 226: unseal_vault(keys) called on its own; <<>> stands for a call
\* without keys
UnsealVaultStart(p, keys) ==
    /\ MayCall(p)
    /\ hist' = [hist EXCEPT !.unseals = @ + 1]
    /\ u' = [u EXCEPT ![p] = [IdleUnit EXCEPT !.op = "unseal_vault",
                                              !.pc = "unseal_read",
                                              !.keys = keys,
                                              !.keysarg = keys]]
    /\ UNCHANGED <<running, config, vault, leaderdb, leader>>

\* line 233 is the end of unseal_vault: back in prepare_vault at line 205,
\* or back at the caller
AfterUnseal(loc) ==
    IF loc.op = "unseal_vault" THEN Ended(loc, "returned")
    ELSE [loc EXCEPT !.pc = "chk_leader"]

\* UnsealRead that falls back to an empty key when none is published
UnsealRead_DefaultKey(p) ==
    /\ u[p].pc = "unseal_read"
    /\ u' = [u EXCEPT ![p] =
                LET ks == IF "keys" \notin DOMAIN leaderdb THEN << <<>> >>
                          ELSE json_loads(leaderdb["keys"])
                IN  IF ks = <<>>
                    THEN [@ EXCEPT !.keys = ks, !.pc = "chk_leader"]
                    ELSE [@ EXCEPT !.keys = ks, !.i = 1, !.pc = "unseal_loop"]]
    /\ UNCHANGED <<running, config, vault, leaderdb, leader, hist>>

\* lines 229-231: unseal_vault() without keys reads them from the leader
\* database; a missing 'keys' attribute raises KeyError
UnsealRead(p) ==
    /\ u[p].pc = "unseal_read"
    /\ u' = [u EXCEPT ![p] =
                IF u[p].keys # <<>>
                THEN [@ EXCEPT !.i = 1, !.pc = "unseal_loop"]
                ELSE IF "keys" \notin DOMAIN leaderdb
                THEN Ended([@ EXCEPT !.missingKeys = TRUE, !.readKeys = TRUE],
                           "KeyError")
                ELSE LET ks == json_loads(leaderdb["keys"])
                     IN  IF ks = <<>>
                         THEN AfterUnseal([@ EXCEPT !.readKeys = TRUE])
                         ELSE [@ EXCEPT !.keys = ks, !.i = 1, !.readKeys = TRUE,
                                        !.pc = "unseal_loop"]]
    /\ UNCHANGED <<running, config, vault, leaderdb, leader, hist>>

\* lines 232-233: client.unseal(key) for the next key
Unseal(p) ==
    /\ u[p].pc = "unseal_loop"
    /\ IF ~Up(p)
       THEN /\ u' = [u EXCEPT ![p] = Ended([@ EXCEPT !.nUnseal = @ + 1], "ConnectionError")]
            /\ UNCHANGED vault
       ELSE IF ~vault.initialized
       THEN /\ u' = [u EXCEPT ![p] = Ended([@ EXCEPT !.nUnseal = @ + 1], "VaultError")]
            /\ UNCHANGED vault
       ELSE /\ vault' = VaultUnseal(vault, p, u[p].keys[u[p].i])
            /\ u' = [u EXCEPT ![p] =
                        LET loc == [@ EXCEPT !.nUnseal = @ + 1, !.i = @ + 1,
                                             !.sent = Append(@, u[p].keys[u[p].i])]
                        IN  IF u[p].i >= Len(u[p].keys)
                            THEN AfterUnseal(loc) ELSE loc]
    /\ UNCHANGED <<running, config, leaderdb, leader, hist>>

\* line 205: the condition under which the pass provisions charm access
MayProvision(p, health) == is_leader(p)

\* lines 205-206: is_leader() decides whether the pass provisions access
CheckLeader(p) ==
    /\ u[p].pc = "chk_leader"
    /\ u' = [u EXCEPT ![p] =
                LET loc == [@ EXCEPT !.leaderYes = @ \/ is_leader(p),
                                     !.leaderNo = @ \/ ~is_leader(p)]
                IN  IF MayProvision(p, u[p].health)
                    THEN [loc EXCEPT !.tokarg = None, !.pc = "s_token"]
                    ELSE Ended(loc, "returned")]
    /\ UNCHANGED <<running, config, vault, leaderdb, leader, hist>>

(***************************************************************************)
(* setup_charm_vault_access (lines 131-146), called by prepare_vault at    *)
(* line 206 and directly, with a token, by an operator action.             *)
(***************************************************************************)
\* a direct call setup_charm_vault_access(token=tok)
SetupStart(p, tok) ==
    /\ MayCall(p)
    /\ hist' = [hist EXCEPT !.setups = @ + 1]
    /\ u' = [u EXCEPT ![p] = [IdleUnit EXCEPT !.op = "setup_charm_vault_access",
                                              !.tokarg = tok, !.pc = "s_token"]]
    /\ UNCHANGED <<running, config, vault, leaderdb, leader>>

\* lines 138-139: the leader database attribute the token is read from
TokenAttribute == "token"

\* lines 138-142: the token the client authenticates with
ResolveToken(tokarg) == IF Falsy(tokarg) THEN leader_get(TokenAttribute) ELSE tokarg

SetupToken(p) ==
    /\ u[p].pc = "s_token"
    /\ u' = [u EXCEPT ![p] = [@ EXCEPT !.token = ResolveToken(u[p].tokarg),
                                       !.readStore = Falsy(u[p].tokarg),
                                       !.pc = "s_list"]]
    /\ UNCHANGED <<running, config, vault, leaderdb, leader, hist>>

\* A request of the provisioning client: refused when the server does not
\* answer, is sealed or uninitialised, or the token is not its root token.
Refusal(p, tok) ==
    IF ~Up(p) THEN "ConnectionError"
    ELSE IF ~Authorized(p, tok) THEN "VaultError"
    ELSE "ok"

\* The unit's record of one more provisioning request, sent now.
Provisions(p, loc) ==
    [loc EXCEPT !.nProv = @ + 1, !.provSealed = @ \/ vault.sealed[p]]

\* line 108: client.list_auth_backends()
ListAuthBackends(p) ==
    /\ u[p].pc = "s_list"
    /\ u' = [u EXCEPT ![p] =
                IF Refusal(p, u[p].token) # "ok"
                THEN Ended(Provisions(p, @), Refusal(p, u[p].token))
                ELSE [Provisions(p, @) EXCEPT
                         !.pc = IF "approle/" \notin vault.auth
                                THEN "s_enable" ELSE "s_policy"]]
    /\ UNCHANGED <<running, config, vault, leaderdb, leader, hist>>

\* line 109: client.enable_auth_backend('approle'); the server refuses a
\* path that is already in use
EnableAuthBackend(p) ==
    /\ u[p].pc = "s_enable"
    /\ IF Refusal(p, u[p].token) # "ok"
       THEN /\ u' = [u EXCEPT ![p] = Ended(Provisions(p, @), Refusal(p, u[p].token))]
            /\ UNCHANGED <<vault, hist>>
       ELSE IF "approle/" \in vault.auth
       THEN /\ u' = [u EXCEPT ![p] = Ended(Provisions(p, @), "VaultError")]
            /\ UNCHANGED <<vault, hist>>
       ELSE /\ vault' = [vault EXCEPT !.auth = @ \cup {"approle/"}]
            /\ u' = [u EXCEPT ![p] = [Provisions(p, @) EXCEPT !.pc = "s_policy"]]
            /\ hist' = [hist EXCEPT !.enables = @ + 1]
    /\ UNCHANGED <<running, config, leaderdb, leader>>

\* lines 144-145: client.set_policy(CHARM_POLICY_NAME, CHARM_POLICY), an upsert
SetPolicy(p) ==
    /\ u[p].pc = "s_policy"
    /\ IF Refusal(p, u[p].token) # "ok"
       THEN /\ u' = [u EXCEPT ![p] = Ended(Provisions(p, @), Refusal(p, u[p].token))]
            /\ UNCHANGED vault
       ELSE /\ vault' = [vault EXCEPT
                            !.policies = (CHARM_POLICY_NAME :> CHARM_POLICY) @@ @]
            /\ u' = [u EXCEPT ![p] = [Provisions(p, @) EXCEPT !.pc = "s_role"]]
    /\ UNCHANGED <<running, config, leaderdb, leader, hist>>

\* lines 121-127: the role create_local_charm_access_role asks for
LocalCharmAccessRole(policies, id) ==
    [token_ttl |-> "60s", token_max_ttl |-> "60s", policies |-> policies,
     bind_secret_id |-> "false", bound_cidr_list |-> "127.0.0.1/32",
     role_id |-> id]

\* CreateRole that gives the role a new id on every call
CreateRole_FreshId(p) ==
    /\ u[p].pc = "s_role"
    /\ IF Refusal(p, u[p].token) # "ok"
       THEN /\ u' = [u EXCEPT ![p] = Ended(Provisions(p, @), Refusal(p, u[p].token))]
            /\ UNCHANGED vault
       ELSE IF "approle/" \notin vault.auth
       THEN /\ u' = [u EXCEPT ![p] = Ended(Provisions(p, @), "VaultError")]
            /\ UNCHANGED vault
       ELSE /\ vault' =
                IF CHARM_ACCESS_ROLE \in DOMAIN vault.roles
                THEN [vault EXCEPT !.roles =
                        (CHARM_ACCESS_ROLE :>
                            LocalCharmAccessRole(<<CHARM_POLICY_NAME>>,
                                                 ToString(vault.nextRoleId)))
                        @@ @,
                        !.nextRoleId = @ + 1]
                ELSE [vault EXCEPT !.roles =
                        (CHARM_ACCESS_ROLE :>
                            LocalCharmAccessRole(<<CHARM_POLICY_NAME>>,
                                                 ToString(vault.nextRoleId)))
                        @@ @,
                        !.nextRoleId = @ + 1]
            /\ u' = [u EXCEPT ![p] = [Provisions(p, @) EXCEPT !.pc = "s_roleid"]]
    /\ UNCHANGED <<running, config, leaderdb, leader, hist>>

\* lines 121-127: client.create_role(CHARM_ACCESS_ROLE, ...), an upsert that
\* keeps the id of a role that exists; it needs the approle backend
CreateRole(p) ==
    /\ u[p].pc = "s_role"
    /\ IF Refusal(p, u[p].token) # "ok"
       THEN /\ u' = [u EXCEPT ![p] = Ended(Provisions(p, @), Refusal(p, u[p].token))]
            /\ UNCHANGED vault
       ELSE IF "approle/" \notin vault.auth
       THEN /\ u' = [u EXCEPT ![p] = Ended(Provisions(p, @), "VaultError")]
            /\ UNCHANGED vault
       ELSE /\ vault' =
                IF CHARM_ACCESS_ROLE \in DOMAIN vault.roles
                THEN [vault EXCEPT !.roles =
                        (CHARM_ACCESS_ROLE :>
                            LocalCharmAccessRole(<<CHARM_POLICY_NAME>>,
                                                 vault.roles[CHARM_ACCESS_ROLE].role_id))
                        @@ @]
                ELSE [vault EXCEPT !.roles =
                        (CHARM_ACCESS_ROLE :>
                            LocalCharmAccessRole(<<CHARM_POLICY_NAME>>,
                                                 ToString(vault.nextRoleId)))
                        @@ @,
                        !.nextRoleId = @ + 1]
            /\ u' = [u EXCEPT ![p] = [Provisions(p, @) EXCEPT !.pc = "s_roleid"]]
    /\ UNCHANGED <<running, config, leaderdb, leader, hist>>

\* lines 146 and 206: setup_charm_vault_access returns the role id to its
\* caller; prepare_vault, when it is the caller, drops it and returns None
AfterSetup(loc, id) ==
    IF loc.op = "setup_charm_vault_access"
    THEN Ended([loc EXCEPT !.ret = id], "returned")
    ELSE Ended(loc, "returned")

\* line 128: client.get_role_id(CHARM_ACCESS_ROLE)
GetRoleId(p) ==
    /\ u[p].pc = "s_roleid"
    /\ IF Refusal(p, u[p].token) # "ok"
       THEN /\ u' = [u EXCEPT ![p] = Ended(Provisions(p, @), Refusal(p, u[p].token))]
            /\ UNCHANGED hist
       ELSE IF CHARM_ACCESS_ROLE \notin DOMAIN vault.roles
       THEN /\ u' = [u EXCEPT ![p] = Ended(Provisions(p, @), "VaultError")]
            /\ UNCHANGED hist
       ELSE /\ u' = [u EXCEPT ![p] =
                        AfterSetup(Provisions(p, @),
                                   vault.roles[CHARM_ACCESS_ROLE].role_id)]
            /\ hist' = [hist EXCEPT !.setupsOk = @ + 1]
    /\ UNCHANGED <<running, config, vault, leaderdb, leader>>

\* lines 149-155: get_local_charm_access_role_id()
get_local_charm_access_role_id == leader_get(CHARM_ACCESS_ROLE_ID)

(***************************************************************************)
(* can_restart (lines 236-256) and opportunistic_restart (lines 181-188).  *)
(***************************************************************************)
\* LocalRules without the rule of lines 245-246
LocalRules_IgnoreUnsafe(isRunning, unsafe) ==
    IF ~isRunning THEN [pc |-> "r_ret", safe |-> TRUE, queries |-> <<"service_running">>]
    ELSE [pc |-> "r_init", safe |-> FALSE, queries |-> <<"service_running", "config">>]

\* lines 242-246: the rules decided on the unit itself.  The result is the
\* position can_restart continues at and the value of safe_restart.
LocalRules(isRunning, unsafe) ==
    IF ~isRunning THEN [pc |-> "r_ret", safe |-> TRUE, queries |-> <<"service_running">>]
    ELSE IF unsafe THEN [pc |-> "r_ret", safe |-> TRUE,
                         queries |-> <<"service_running", "config">>]
    ELSE [pc |-> "r_init", safe |-> FALSE, queries |-> <<"service_running", "config">>]

GateBegin(p, op) ==
    LET r == LocalRules(running[p], config)
    IN  u' = [u EXCEPT ![p] = [IdleUnit EXCEPT !.op = op, !.pc = r.pc,
                                               !.safe_restart = r.safe,
                                               !.queries = r.queries]]

\* a direct call can_restart()
CanRestartStart(p) ==
    /\ MayCall(p)
    /\ hist' = [hist EXCEPT !.gates = @ + 1]
    /\ GateBegin(p, "can_restart")
    /\ UNCHANGED <<running, config, vault, leaderdb, leader>>

\* line 183: opportunistic_restart() calls can_restart()
OpportunisticRestartStart(p) ==
    /\ MayCall(p)
    /\ hist' = [hist EXCEPT !.restarts = @ + 1]
    /\ GateBegin(p, "opportunistic_restart")
    /\ UNCHANGED <<running, config, vault, leaderdb, leader>>

\* lines 248-250: client.is_initialized()
IsInitialized(p) ==
    /\ u[p].pc = "r_init"
    /\ u' = [u EXCEPT ![p] =
                LET loc == [@ EXCEPT !.queries = Append(@, "is_initialized")]
                IN  IF ~Up(p) THEN Ended(loc, "ConnectionError")
                    ELSE IF ~vault.initialized
                    THEN [loc EXCEPT !.safe_restart = TRUE, !.pc = "r_ret"]
                    ELSE [loc EXCEPT !.pc = "r_sealed"]]
    /\ UNCHANGED <<running, config, vault, leaderdb, leader, hist>>

\* lines 251-252: client.is_sealed()
IsSealed(p) ==
    /\ u[p].pc = "r_sealed"
    /\ u' = [u EXCEPT ![p] =
                LET loc == [@ EXCEPT !.queries = Append(@, "is_sealed")]
                IN  IF ~Up(p) THEN Ended(loc, "ConnectionError")
                    ELSE IF vault.sealed[p]
                    THEN [loc EXCEPT !.safe_restart = TRUE, !.pc = "r_ret"]
                    ELSE [loc EXCEPT !.pc = "r_ret"]]
    /\ UNCHANGED <<running, config, vault, leaderdb, leader, hist>>

\* lines 253-256: a direct call of can_restart returns safe_restart
CanRestartReturn(p) ==
    /\ u[p].pc = "r_ret"
    /\ u[p].op = "can_restart"
    /\ u' = [u EXCEPT ![p] = Ended(@, "returned")]
    /\ UNCHANGED <<running, config, vault, leaderdb, leader, hist>>

\* opportunistic_restart that restarts the service whatever the gate said
OpportunisticRestart_Always(p) ==
    /\ u[p].pc = "r_ret"
    /\ u[p].op = "opportunistic_restart"
    /\ u' = [u EXCEPT ![p] =
               Ended([@ EXCEPT !.acted = "service_restart",
                               !.hitReady = /\ running[p] /\ ~config
                                            /\ vault.initialized
                                            /\ ~vault.sealed[p]],
                     "returned")]
    /\ running' = [running EXCEPT ![p] = TRUE]
    /\ vault' = VaultRestarted(vault, p)
    /\ UNCHANGED <<config, leaderdb, leader, hist>>

\* lines 183-188: service_restart when can_restart() said so, else
\* service_start, which leaves a running service alone
OpportunisticRestart(p) ==
    /\ u[p].pc = "r_ret"
    /\ u[p].op = "opportunistic_restart"
    /\ u' = [u EXCEPT ![p] =
               Ended([@ EXCEPT !.acted = IF u[p].safe_restart
                                         THEN "service_restart"
                                         ELSE "service_start",
                               !.hitReady = /\ running[p] /\ ~config
                                            /\ vault.initialized
                                            /\ ~vault.sealed[p]],
                     "returned")]
    /\ IF u[p].safe_restart \/ ~running[p]
       THEN /\ running' = [running EXCEPT ![p] = TRUE]
            /\ vault' = VaultRestarted(vault, p)
       ELSE UNCHANGED <<running, vault>>
    /\ UNCHANGED <<config, leaderdb, leader, hist>>

(***************************************************************************)
(* configure_secret_backend(client, name), lines 259-269.  The client is   *)
(* the caller's; its token is tok.                                         *)
(***************************************************************************)
\* line 266: '{}/'.format(name)
MountPath(name) == name \o "/"

ConfigureStart(p, name, tok) ==
    /\ MayCall(p)
    /\ u' = [u EXCEPT ![p] = [IdleUnit EXCEPT !.op = "configure_secret_backend",
                                              !.pc = "b_list",
                                              !.name = name, !.token = tok]]
    /\ hist' = [hist EXCEPT
                  !.configures = @ + 1,
                  !.overlap = @ \/ \E q \in Units \ {p} :
                                     /\ u[q].op = "configure_secret_backend"
                                     /\ u[q].pc # "done"]
    /\ UNCHANGED <<running, config, vault, leaderdb, leader>>

\* ListSecretBackends that never finds the mount point listed
ListSecretBackends_NoCheck(p) ==
    /\ u[p].pc = "b_list"
    /\ u' = [u EXCEPT ![p] =
               IF Refusal(p, u[p].token) # "ok"
               THEN Ended(Provisions(p, @), Refusal(p, u[p].token))
               ELSE [Provisions(p, @) EXCEPT !.pc = "b_enable"]]
    /\ UNCHANGED <<running, config, vault, leaderdb, leader, hist>>

\* line 266: client.list_secret_backends() and the membership test
ListSecretBackends(p) ==
    /\ u[p].pc = "b_list"
    /\ u' = [u EXCEPT ![p] =
               IF Refusal(p, u[p].token) # "ok"
               THEN Ended(Provisions(p, @), Refusal(p, u[p].token))
               ELSE IF MountPath(u[p].name) \in vault.mounts
               THEN Ended(Provisions(p, @), "returned")
               ELSE [Provisions(p, @) EXCEPT !.pc = "b_enable"]]
    /\ UNCHANGED <<running, config, vault, leaderdb, leader, hist>>

\* lines 267-269: client.enable_secret_backend(backend_type='kv', ...,
\* mount_point=name); the server refuses a path that is already mounted
EnableSecretBackend(p) ==
    /\ u[p].pc = "b_enable"
    /\ hist' = [hist EXCEPT !.enableCalls[u[p].name] = @ + 1]
    /\ IF Refusal(p, u[p].token) # "ok"
       THEN /\ u' = [u EXCEPT ![p] = Ended(Provisions(p, @), Refusal(p, u[p].token))]
            /\ UNCHANGED vault
       ELSE IF MountPath(u[p].name) \in vault.mounts
       THEN /\ u' = [u EXCEPT ![p] = Ended(Provisions(p, @), "VaultError")]
            /\ UNCHANGED vault
       ELSE /\ vault' = [vault EXCEPT !.mounts = @ \cup {MountPath(u[p].name)}]
            /\ u' = [u EXCEPT ![p] = Ended(Provisions(p, @), "returned")]
    /\ UNCHANGED <<running, config, leaderdb, leader>>

(***************************************************************************)
(* configure_policy(client, name, hcl), lines 272-281, and                 *)
(* configure_approle(client, name, cidr, policies), lines 284-304.  The    *)
(* client is the caller's; its token is tok.                               *)
(***************************************************************************)
ConfigurePolicyStart(p, name, hcl, tok) ==
    /\ MayCall(p)
    /\ hist' = [hist EXCEPT !.configures = @ + 1]
    /\ u' = [u EXCEPT ![p] = [IdleUnit EXCEPT !.op = "configure_policy",
                                              !.pc = "p_set", !.name = name,
                                              !.hcl = hcl, !.token = tok]]
    /\ UNCHANGED <<running, config, vault, leaderdb, leader>>

\* line 281: client.set_policy(name, hcl), an upsert
ConfigurePolicy(p) ==
    /\ u[p].pc = "p_set"
    /\ IF Refusal(p, u[p].token) # "ok"
       THEN /\ u' = [u EXCEPT ![p] = Ended(Provisions(p, @), Refusal(p, u[p].token))]
            /\ UNCHANGED vault
       ELSE /\ vault' = [vault EXCEPT !.policies = (u[p].name :> u[p].hcl) @@ @]
            /\ u' = [u EXCEPT ![p] = Ended(Provisions(p, @), "returned")]
    /\ UNCHANGED <<running, config, leaderdb, leader, hist>>

ConfigureApproleStart(p, name, cidr, policies, tok) ==
    /\ MayCall(p)
    /\ hist' = [hist EXCEPT !.configures = @ + 1]
    /\ u' = [u EXCEPT ![p] = [IdleUnit EXCEPT !.op = "configure_approle",
                                              !.pc = "a_role", !.name = name,
                                              !.cidr = cidr,
                                              !.policies = policies,
                                              !.token = tok]]
    /\ UNCHANGED <<running, config, vault, leaderdb, leader>>

\* lines 297-303: the role configure_approle asks for
Approle(policies, cidr, id) ==
    [token_ttl |-> "60s", token_max_ttl |-> "60s", policies |-> policies,
     bind_secret_id |-> "false", bound_cidr_list |-> cidr, role_id |-> id]

\* lines 297-303: client.create_role(name, ...), an upsert that keeps the
\* id of a role that exists; it needs the approle backend
ConfigureApproleCreateRole(p) ==
    /\ u[p].pc = "a_role"
    /\ IF Refusal(p, u[p].token) # "ok"
       THEN /\ u' = [u EXCEPT ![p] = Ended(Provisions(p, @), Refusal(p, u[p].token))]
            /\ UNCHANGED vault
       ELSE IF "approle/" \notin vault.auth
       THEN /\ u' = [u EXCEPT ![p] = Ended(Provisions(p, @), "VaultError")]
            /\ UNCHANGED vault
       ELSE /\ vault' =
                IF u[p].name \in DOMAIN vault.roles
                THEN [vault EXCEPT !.roles =
                        (u[p].name :>
                            Approle(u[p].policies, u[p].cidr,
                                    vault.roles[u[p].name].role_id))
                        @@ @]
                ELSE [vault EXCEPT !.roles =
                        (u[p].name :>
                            Approle(u[p].policies, u[p].cidr,
                                    ToString(vault.nextRoleId)))
                        @@ @,
                        !.nextRoleId = @ + 1]
            /\ u' = [u EXCEPT ![p] = [Provisions(p, @) EXCEPT !.pc = "a_roleid"]]
    /\ UNCHANGED <<running, config, leaderdb, leader, hist>>

\* line 304: return client.get_role_id(name)
ConfigureApproleGetRoleId(p) ==
    /\ u[p].pc = "a_roleid"
    /\ u' = [u EXCEPT ![p] =
               IF Refusal(p, u[p].token) # "ok"
               THEN Ended(Provisions(p, @), Refusal(p, u[p].token))
               ELSE IF u[p].name \notin DOMAIN vault.roles
               THEN Ended(Provisions(p, @), "VaultError")
               ELSE Ended([Provisions(p, @) EXCEPT
                              !.ret = vault.roles[u[p].name].role_id],
                          "returned")]
    /\ UNCHANGED <<running, config, vault, leaderdb, leader, hist>>

(***************************************************************************)
(* The environment: the caller of a function that ended takes its result   *)
(* and the unit is free again; the started server begins to answer;        *)
(* leadership moves.                                                       *)
(***************************************************************************)
Return(p) ==
    /\ u[p].pc = "done"
    /\ u' = [u EXCEPT ![p] = IdleUnit]
    /\ UNCHANGED <<running, config, vault, leaderdb, leader, hist>>

ServerReady(p) ==
    /\ running[p]
    /\ ~vault.reachable[p]
    /\ vault' = [vault EXCEPT !.reachable[p] = TRUE]
    /\ UNCHANGED <<running, config, leaderdb, leader, u, hist>>

LeaderChange(q) ==
    /\ q # leader
    /\ hist.leaderChanges < MaxLeaderChanges
    /\ leader' = q
    /\ hist' = [hist EXCEPT !.leaderChanges = @ + 1]
    /\ UNCHANGED <<running, config, vault, leaderdb, u>>

PrepareVault(p) ==
    \/ PrepareStart(p)
    \/ GetVaultHealth(p)
    \/ CheckInitialized(p)
    \/ InitializeCall(p)
    \/ LeaderSet(p)
    \/ UnsealRead(p)
    \/ Unseal(p)
    \/ CheckLeader(p)

SetupCharmVaultAccess(p) ==
    \/ SetupToken(p)
    \/ ListAuthBackends(p)
    \/ EnableAuthBackend(p)
    \/ SetPolicy(p)
    \/ CreateRole(p)
    \/ GetRoleId(p)

Next ==
    \/ \E p \in Units : PrepareVault(p)
    \/ \E p \in Units : SetupCharmVaultAccess(p)
    \/ \E p \in Units, tok \in TokenArgs \ {None} : SetupStart(p, tok)
    \/ \E p \in Units : OpportunisticRestartStart(p)
    \/ \E p \in Units : IsInitialized(p)
    \/ \E p \in Units : IsSealed(p)
    \/ \E p \in Units : OpportunisticRestart(p)
    \/ \E p \in Units : Return(p)
    \/ \E p \in Units : ServerReady(p)
    \/ \E q \in Units : LeaderChange(q)

Spec == Init /\ [][Next]_vars

(***************************************************************************)
(* The restart gate on its own: can_restart() called on every combination  *)
(* of its four inputs, on a server that answers or does not.               *)
(***************************************************************************)
InitGate ==
    /\ running \in [Units -> BOOLEAN]
    /\ config \in BOOLEAN
    /\ vault \in {[VaultInit EXCEPT !.reachable = r, !.initialized = i, !.sealed = s] :
                     r \in [Units -> BOOLEAN], i \in BOOLEAN,
                     s \in [Units -> BOOLEAN]}
    /\ leaderdb = <<>>
    /\ leader \in Units
    /\ u = [p \in Units |-> IdleUnit]
    /\ hist = HistInit

NextGate ==
    \/ \E p \in Units : CanRestartStart(p)
    \/ \E p \in Units : IsInitialized(p)
    \/ \E p \in Units : IsSealed(p)
    \/ \E p \in Units : CanRestartReturn(p)
    \/ \E p \in Units : Return(p)

SpecGate == InitGate /\ [][NextGate]_vars

(***************************************************************************)
(* configure_secret_backend on its own: running servers, initialised,      *)
(* sealed or not, with any of the mounts below already there.              *)
(***************************************************************************)
MountPool == {"secret/", "charm-foo/"}

InitBackend ==
    /\ running = [p \in Units |-> TRUE]
    /\ config \in BOOLEAN
    /\ \E s \in [Units -> BOOLEAN], m \in SUBSET MountPool :
         /\ vault = [VaultInit EXCEPT !.reachable = [p \in Units |-> TRUE],
                                      !.initialized = TRUE,
                                      !.sealed = s, !.root_token = "s.root",
                                      !.mounts = m]
         /\ hist = [HistInit EXCEPT !.mounts0 = m]
    /\ leaderdb = <<>>
    /\ leader \in Units
    /\ u = [p \in Units |-> IdleUnit]

NextBackend ==
    \/ \E p \in Units, n \in BackendNames, tok \in TokenArgs \ {None} :
         ConfigureStart(p, n, tok)
    \/ \E p \in Units : ListSecretBackends(p)
    \/ \E p \in Units : EnableSecretBackend(p)
    \/ \E p \in Units : Return(p)

SpecBackend == InitBackend /\ [][NextBackend]_vars

(***************************************************************************)
(* initialize_vault and unseal_vault on their own: running, answering      *)
(* servers, uninitialised; every unit may call either, with any arguments. *)
(***************************************************************************)
KeysArgs == {<<>>} \cup KeyLists(1) \cup KeyLists(2)

InitKeys ==
    /\ running = [p \in Units |-> TRUE]
    /\ config \in BOOLEAN
    /\ vault = [VaultInit EXCEPT !.reachable = [p \in Units |-> TRUE]]
    /\ leaderdb = <<>>
    /\ leader \in Units
    /\ u = [p \in Units |-> IdleUnit]
    /\ hist = HistInit

NextKeys ==
    \/ \E p \in Units, a \in ShareArgs : InitializeVaultStart(p, a[1], a[2])
    \/ \E p \in Units : InitializeCall(p)
    \/ \E p \in Units : LeaderSet(p)
    \/ \E p \in Units, ks \in KeysArgs : UnsealVaultStart(p, ks)
    \/ \E p \in Units : UnsealRead(p)
    \/ \E p \in Units : Unseal(p)
    \/ \E p \in Units : Return(p)

SpecKeys == InitKeys /\ [][NextKeys]_vars

(***************************************************************************)
(* Passes scheduled again and again on every unit: the server processes    *)
(* stay running and answering and leadership does not move.  Every unit    *)
(* keeps taking the next step of its pass and keeps starting passes (weak  *)
(* fairness); an operator may call setup_charm_vault_access on its own a   *)
(* bounded number of times, under no fairness.                             *)
(***************************************************************************)
InitLive ==
    /\ running = [p \in Units |-> TRUE]
    /\ config \in BOOLEAN
    /\ vault = [VaultInit EXCEPT !.reachable = [p \in Units |-> TRUE]]
    /\ leaderdb = <<>>
    /\ leader \in Units
    /\ u = [p \in Units |-> IdleUnit]
    /\ hist = HistInit

PassLive(p) ==
    \/ PrepareAgain(p)
    \/ GetVaultHealth(p)
    \/ CheckInitialized(p)
    \/ InitializeCall(p)
    \/ LeaderSet(p)
    \/ UnsealRead(p)
    \/ Unseal(p)
    \/ CheckLeader(p)
    \/ SetupCharmVaultAccess(p)
    \/ Return(p)

NextLive ==
    \/ \E p \in Units : PassLive(p)
    \/ \E p \in Units, tok \in TokenArgs \ {None} : SetupStart(p, tok)

SpecLive ==
    /\ InitLive
    /\ [][NextLive]_vars
    /\ \A p \in Units : WF_vars(PassLive(p))

(***************************************************************************)
(* The functions that provision access, on a cluster that is bootstrapped: *)
(* every server running, answering and unsealed, the secrets in the leader *)
(* database.  Every unit may call setup_charm_vault_access,                *)
(* configure_policy and configure_approle, with any arguments.             *)
(***************************************************************************)
BootstrapResult == [root_token |-> "s.root", keys |-> << <<"a", "1">> >>]

InitAccess ==
    /\ running = [p \in Units |-> TRUE]
    /\ config \in BOOLEAN
    /\ vault = [VaultInit EXCEPT !.reachable = [p \in Units |-> TRUE],
                                 !.initialized = TRUE,
                                 !.sealed = [p \in Units |-> FALSE],
                                 !.root_token = BootstrapResult.root_token,
                                 !.keys = BootstrapResult.keys,
                                 !.threshold = Threshold]
    /\ leaderdb = InitializeKwargs(BootstrapResult)
    /\ leader \in Units
    /\ u = [p \in Units |-> IdleUnit]
    /\ hist = HistInit

NextAccess ==
    \/ \E p \in Units, tok \in TokenArgs \ {None} : SetupStart(p, tok)
    \/ \E p \in Units : SetupCharmVaultAccess(p)
    \/ \E p \in Units, n \in PolicyNames, h \in HclPool, tok \in TokenArgs \ {None} :
         ConfigurePolicyStart(p, n, h, tok)
    \/ \E p \in Units : ConfigurePolicy(p)
    \/ \E p \in Units, n \in RoleNames, c \in CidrPool, ps \in PolicyLists,
               tok \in TokenArgs \ {None} :
         ConfigureApproleStart(p, n, c, ps, tok)
    \/ \E p \in Units : ConfigureApproleCreateRole(p)
    \/ \E p \in Units : ConfigureApproleGetRoleId(p)
    \/ \E p \in Units : Return(p)

SpecAccess == InitAccess /\ [][NextAccess]_vars

TypeOK ==
    /\ running \in [Units -> BOOLEAN]
    /\ leader \in Units
    /\ \A p \in Units : u[p].attempts \in 0..MaxAttempts

(***************************************************************************)
(* Properties.                                                             *)
(***************************************************************************)
\* A pass of prepare_vault of unit p, running or just ended.
InPass(p) == u[p].op = "prepare_vault"

\* A pass of prepare_vault of unit p that has ended.
PassDone(p) == InPass(p) /\ u[p].pc = "done"

\* C1 (leader-gating): a pass in which every is_leader() query answered
\* false has sent no initialize call and made no leader_set, and is not
\* about to, whatever health it probed.
C1_LeaderGating ==
    \A p \in Units :
        (InPass(p) /\ u[p].leaderNo /\ ~u[p].leaderYes)
        => /\ u[p].nInit = 0
           /\ u[p].nWrite = 0
           /\ u[p].pc \notin {"init_call", "init_write"}

\* A follower pass over an uninitialised server has ended.
C1_Witness ==
    \E p \in Units :
        /\ PassDone(p) /\ u[p].leaderNo /\ ~u[p].leaderYes
        /\ ~u[p].probed.initialized /\ u[p].probed.sealed

\* C2 (initialize at most once): the server receives at most one
\* initialize call, over all passes of all units.
C2_InitializeAtMostOnce == hist.initRecv <= 1

\* C3 (sequencing of unseal): a pass sends an unseal call only after an
\* initialize call has succeeded and the root token and the keys are in the
\* leader database.
C3_UnsealAfterSecretsPersisted ==
    \A p \in Units :
        (InPass(p) /\ (u[p].nUnseal > 0 \/ u[p].pc = "unseal_loop"))
        => /\ hist.initOk >= 1
           /\ vault.initialized
           /\ {"root_token", "keys"} \subseteq DOMAIN leaderdb

\* A follower pass has sent an unseal call.
C3_Witness ==
    \E p \in Units :
        InPass(p) /\ u[p].nUnseal > 0 /\ u[p].nInit = 0 /\ ~is_leader(p)

\* C4 (sequencing of provisioning): no pass sends a provisioning request
\* while the server is sealed.
C4_NoProvisioningWhileSealed ==
    \A p \in Units : InPass(p) => ~u[p].provSealed

\* A pass that found its server sealed, unsealed it and then sent a
\* provisioning request.
C4_Witness ==
    \E p \in Units :
        /\ InPass(p) /\ u[p].probed.sealed
        /\ u[p].nUnseal > 0 /\ u[p].nProv > 0 /\ ~u[p].provSealed

\* C5 (end-to-end bootstrap): the first and only pass, run by the leader on
\* the started, answering, uninitialised server with no leadership change,
\* ends having sent one initialize call, with the secrets in the leader
\* database, one unseal call per key, the access role created and the
\* server initialised and unsealed.
C5_EndToEndBootstrap ==
    \A p \in Units :
        (/\ PassDone(p)
         /\ hist.passes = 1 /\ hist.setups = 0 /\ hist.restarts = 1
         /\ hist.leaderChanges = 0 /\ is_leader(p)
         /\ u[p].outcome \notin {"deferred", "ConnectionError"})
        => /\ u[p].outcome = "returned"
           /\ u[p].nInit = 1 /\ hist.initRecv = 1
           /\ {"root_token", "keys"} \subseteq DOMAIN leaderdb
           /\ leaderdb["root_token"] = vault.root_token
           /\ json_loads(leaderdb["keys"]) = vault.keys
           /\ u[p].nUnseal = Len(vault.keys)
           /\ CHARM_ACCESS_ROLE \in DOMAIN vault.roles
           /\ vault.initialized /\ ~vault.sealed[p]

\* C6 (role id publication): a leader pass that went through its
\* provisioning step on an answering, unsealed server ends with the access
\* role on the server and its id readable by
\* get_local_charm_access_role_id; and an id is published only for a role
\* that exists.
C6_RoleIdPublished ==
    /\ \A p \in Units :
        (/\ PassDone(p) /\ u[p].nProv > 0 /\ ~u[p].provSealed
         /\ u[p].outcome # "ConnectionError")
        => /\ CHARM_ACCESS_ROLE \in DOMAIN vault.roles
           /\ get_local_charm_access_role_id = vault.roles[CHARM_ACCESS_ROLE].role_id
    /\ CHARM_ACCESS_ROLE_ID \in DOMAIN leaderdb
        => CHARM_ACCESS_ROLE \in DOMAIN vault.roles

\* C7 (admin token resolution): once initialize_vault has published the
\* root token, a call of setup_charm_vault_access without a token
\* authenticates with the published root token, and a call with a token
\* uses that token without reading the leader database.
C7_TokenResolution ==
    \A p \in Units :
        (u[p].nProv > 0 /\ "root_token" \in DOMAIN leaderdb)
        => IF Falsy(u[p].tokarg)
           THEN u[p].token = leaderdb["root_token"]
           ELSE u[p].token = u[p].tokarg /\ ~u[p].readStore

\* C8 (restart gate): a call of can_restart that returns has returned
\* false exactly on (running, flag unset, initialised, unsealed), and has
\* asked its questions in the order running, flag, initialised, sealed,
\* stopping at the first rule that applies.
C8_RestartGateTable ==
    \A p \in Units :
        (u[p].op = "can_restart" /\ u[p].pc = "done" /\ u[p].outcome = "returned")
        => /\ u[p].safe_restart
                = ~(running[p] /\ ~config /\ vault.initialized /\ ~vault.sealed[p])
           /\ u[p].queries =
                IF ~running[p] THEN <<"service_running">>
                ELSE IF config THEN <<"service_running", "config">>
                ELSE IF ~vault.initialized
                THEN <<"service_running", "config", "is_initialized">>
                ELSE <<"service_running", "config", "is_initialized", "is_sealed">>

\* can_restart has returned false.
C8_Witness ==
    \E p \in Units :
        /\ u[p].op = "can_restart" /\ u[p].pc = "done" /\ u[p].outcome = "returned"
        /\ ~u[p].safe_restart

\* C9 (missing keys are not fatal): a pass that finds the server sealed and
\* no keys published sends no unseal call, changes nothing and ends
\* without raising an error to its caller.
C9_MissingKeysDeferred ==
    \A p \in Units :
        (PassDone(p) /\ u[p].missingKeys)
        => /\ u[p].nUnseal = 0 /\ u[p].nInit = 0 /\ u[p].nWrite = 0
           /\ u[p].outcome \in {"returned", "deferred"}

\* C10 (unreachable server): a pass whose health probe used up its
\* attempts has ended by raising the transport error, without a health
\* value and without any initialize, leader_set, unseal or provisioning
\* call.
C10_UnreachableIsFatal ==
    \A p \in Units :
        (InPass(p) /\ u[p].exhausted)
        => /\ u[p].pc = "done"
           /\ u[p].outcome = "ConnectionError"
           /\ u[p].attempts = MaxAttempts
           /\ u[p].probed = NoHealth
           /\ u[p].nInit = 0 /\ u[p].nWrite = 0
           /\ u[p].nUnseal = 0 /\ u[p].nProv = 0

\* A pass has used up the attempts of its health probe.
C10_Witness == \E p \in Units : InPass(p) /\ u[p].exhausted

\* The health of a server that is initialised and unsealed.
ReadyHealth == [initialized |-> TRUE, sealed |-> FALSE]

\* The access role exists on the server.
Provisioned == CHARM_ACCESS_ROLE \in DOMAIN vault.roles

\* A step of a pass of unit p that probed a Ready server.
ReadyPassStep(p) ==
    /\ InPass(p) /\ u[p].probed = ReadyHealth /\ Provisioned
    /\ u'[p] # u[p]

\* C11 (re-entrancy on Ready): no step of a pass, of the leader or of a
\* follower, that probed an initialised, unsealed and provisioned server
\* sends an initialize or unseal call, writes the leader database or
\* changes the auth backends, policies, roles or leader database.
C11_ReadyPassIsNoOp ==
    [][\A p \in Units :
         ReadyPassStep(p)
         => /\ u'[p].nInit = 0 /\ u'[p].nUnseal = 0 /\ u'[p].nWrite = 0
            /\ vault'.auth = vault.auth
            /\ vault'.policies = vault.policies
            /\ vault'.roles = vault.roles
            /\ leaderdb' = leaderdb]_vars

\* A leader pass over a Ready server has gone through line 206 and ended.
C11_Witness ==
    \E p \in Units :
        /\ PassDone(p) /\ u[p].probed = ReadyHealth /\ Provisioned
        /\ u[p].leaderYes /\ u[p].nProv > 0

\* The auth backends, policies and roles one call of
\* setup_charm_vault_access leaves on a server that had none.
AccessAfterOneCall ==
    /\ vault.auth = {"approle/"}
    /\ vault.policies = (CHARM_POLICY_NAME :> CHARM_POLICY)
    /\ vault.roles =
         (CHARM_ACCESS_ROLE :> LocalCharmAccessRole(<<CHARM_POLICY_NAME>>, ToString(1)))
    /\ vault.mounts = VaultInit.mounts

\* C12 (idempotency of setup_charm_vault_access): after any number of calls
\* that returned, the auth backends, policies and roles are those one call
\* leaves; approle has been enabled at most once; every call that returned
\* has returned the same role id.
C12_SetupIdempotent ==
    /\ hist.enables <= 1
    /\ hist.setupsOk >= 1 => AccessAfterOneCall
    /\ \A p \in Units :
         (u[p].op = "setup_charm_vault_access" /\ u[p].pc = "done"
          /\ u[p].outcome = "returned")
         => u[p].ret = ToString(1) /\ AccessAfterOneCall

\* A second call of setup_charm_vault_access has returned.
C12_Witness ==
    /\ hist.setupsOk >= 2
    /\ \E p \in Units :
         u[p].op = "setup_charm_vault_access" /\ u[p].pc = "done"
         /\ u[p].outcome = "returned"

\* C13 (backend mount idempotency): when calls of configure_secret_backend
\* follow one another, the server receives at most one enable_secret_backend
\* call per name, none for a name mounted before the first call, and a call
\* that returns leaves the name mounted; a later call lists it and sends no
\* creation call.
C13_MountIdempotent ==
    /\ \A n \in BackendNames :
         /\ MountPath(n) \in hist.mounts0 => hist.enableCalls[n] = 0
         /\ ~hist.overlap => hist.enableCalls[n] <= 1
         /\ hist.enableCalls[n] >= 1 => MountPath(n) \notin hist.mounts0
    /\ \A p \in Units :
         (u[p].op = "configure_secret_backend" /\ u[p].pc = "done"
          /\ u[p].outcome = "returned")
         => /\ MountPath(u[p].name) \in vault.mounts
            /\ (~hist.overlap /\ MountPath(u[p].name) \notin hist.mounts0)
               => hist.enableCalls[u[p].name] = 1
    /\ hist.mounts0 \subseteq vault.mounts

\* A second call for a name in sequence: it has returned after its listing
\* alone, for a name that was not mounted at first and that one creation
\* call, of an earlier call, has mounted.
C13_Witness ==
    \E p \in Units :
        /\ u[p].op = "configure_secret_backend" /\ u[p].pc = "done"
        /\ u[p].outcome = "returned" /\ u[p].nProv = 1
        /\ MountPath(u[p].name) \notin hist.mounts0
        /\ ~hist.overlap
        /\ hist.enableCalls[u[p].name] = 1

\* A step of get_vault_health of unit p: one attempt.
ProbeStep(p) == u[p].pc = "probe" /\ u'[p] # u[p]

\* C14 (retry bound): get_vault_health never makes more than MaxAttempts
\* attempts; when the MaxAttempts-th fails it raises the transport error;
\* the wait after a failed attempt is WaitMultiplier at first, then twice
\* the wait before, never more than WaitMax; an attempt the server answers
\* ends the probe with the server's health, whatever the attempt's number.
C14_RetryBound ==
    /\ [](\A p \in Units :
            /\ u[p].pc = "probe" => u[p].attempts < MaxAttempts
            /\ u[p].wait <= WaitMax
            /\ u[p].exhausted
               => /\ u[p].attempts = MaxAttempts
                  /\ u[p].pc = "done" /\ u[p].outcome = "ConnectionError")
    /\ [][\A p \in Units :
            ProbeStep(p)
            => IF Up(p)
               THEN /\ u'[p].pc # "probe" /\ ~u'[p].exhausted
                    /\ u'[p].health = [initialized |-> vault.initialized,
                                       sealed |-> vault.sealed[p]]
               ELSE IF u[p].attempts + 1 < MaxAttempts
               THEN /\ u'[p].pc = "probe"
                    /\ u'[p].attempts = u[p].attempts + 1
                    /\ u'[p].wait = IF u[p].attempts = 0 THEN WaitMultiplier
                                    ELSE Min(2 * u[p].wait, WaitMax)
               ELSE /\ u'[p].exhausted
                    /\ u'[p].wait = u[p].wait]_vars

\* The server never answered: the unit has made its last attempt, after
\* waits that reached the cap, and the error is raised.
C14_Witness ==
    \E p \in Units :
        /\ u[p].exhausted /\ u[p].attempts = MaxAttempts
        /\ u[p].wait = WaitMax /\ u[p].outcome = "ConnectionError"

\* The root token and the unseal keys are in the leader database.
SecretsWritten == {"root_token", "keys"} \subseteq DOMAIN leaderdb

\* C15 (BootstrapSecrets immutability): once the root token and the keys
\* are in the leader database no step of any unit changes the database,
\* and what is stored is what the one successful initialize call returned.
C15_SecretsImmutable ==
    /\ [](/\ "keys" \in DOMAIN leaderdb <=> "root_token" \in DOMAIN leaderdb
          /\ SecretsWritten
             => /\ hist.initOk = 1
                /\ json_loads(leaderdb["keys"]) = vault.keys
                /\ leaderdb["root_token"] = vault.root_token)
    /\ [][SecretsWritten => leaderdb' = leaderdb]_vars

\* The secrets are written, leadership has moved since the start, and a
\* pass that found the server initialised has ended.
C15_Witness ==
    /\ SecretsWritten
    /\ hist.leaderChanges >= 1
    /\ \E p \in Units :
         PassDone(p) /\ u[p].probed.initialized /\ u[p].nInit = 0

\* A call of setup_charm_vault_access of unit p has ended.
SetupDone(p) == u[p].op = "setup_charm_vault_access" /\ u[p].pc = "done"

\* C16 (concurrent provisioning is tolerated): a call of
\* setup_charm_vault_access made with the server's root token, all of whose
\* requests reached an answering, unsealed server, does not fail, however
\* its steps interleave with those of another unit's call.
C16_ConcurrentSetupTolerated ==
    \A p \in Units :
        (/\ SetupDone(p)
         /\ u[p].token = vault.root_token
         /\ ~u[p].provSealed
         /\ u[p].outcome # "ConnectionError")
        => u[p].outcome = "returned"

\* A call of unseal_vault of unit p, running or ended.
InUnseal(p) == u[p].op = "unseal_vault"

\* C17 (key round-trip and order): the keys in the leader database decode
\* to the key sequence initialize returned; unseal_vault called without
\* keys submits exactly that sequence, one unseal call per key, in order;
\* called with keys it submits exactly those, in order, and does not read
\* the database.
C17_KeyRoundTrip ==
    /\ SecretsWritten => json_loads(leaderdb["keys"]) = vault.keys
    /\ \A p \in Units :
         InUnseal(p)
         => /\ u[p].pc = "unseal_loop"
               => u[p].sent = SubSeq(u[p].keys, 1, u[p].i - 1)
            /\ u[p].keysarg # <<>> => ~u[p].readKeys
            /\ (u[p].pc = "done" /\ u[p].outcome = "returned")
               => /\ u[p].nUnseal = Len(u[p].sent)
                  /\ u[p].sent = IF u[p].keysarg = <<>> THEN vault.keys
                                 ELSE u[p].keysarg
                  /\ u[p].keysarg = <<>> => u[p].readKeys

\* unseal_vault without keys has returned after submitting two keys read
\* from the leader database.
C17_Witness ==
    \E p \in Units :
        /\ InUnseal(p) /\ u[p].pc = "done" /\ u[p].outcome = "returned"
        /\ u[p].keysarg = <<>> /\ u[p].readKeys
        /\ Len(u[p].sent) = 2 /\ u[p].sent[1] # u[p].sent[2]

\* C18 (lost write is unrecoverable): once the server is initialised with
\* its keys unwritten and the initialising pass stopped, that stays so:
\* the server stays sealed, no unit holds keys or has sent an unseal call,
\* and a pass started since then sends no initialize call.
C18_LostWriteUnrecoverable ==
    /\ [](LostWrite
          => /\ \A p \in Units : vault.sealed[p]
             /\ \A p \in Units :
                  /\ u[p].pc # "unseal_loop"
                  /\ InPass(p) => u[p].nUnseal = 0
                  /\ (InPass(p) /\ u[p].afterLoss)
                     => /\ u[p].nInit = 0
                        /\ u[p].pc \notin {"init_call", "init_write"})
    /\ [][LostWrite => LostWrite']_vars

\* After the write was lost a pass has run to its end: it found the server
\* initialised and sealed and no keys to unseal it with.
C18_Witness ==
    /\ LostWrite
    /\ \E p \in Units :
         /\ PassDone(p) /\ u[p].afterLoss /\ u[p].missingKeys
         /\ u[p].probed = [initialized |-> TRUE, sealed |-> TRUE]

\* Ready: initialised, unsealed, the access role provisioned.
Ready ==
    /\ vault.initialized
    /\ \A p \in Units : ~vault.sealed[p]
    /\ Provisioned

\* C19 (progress to Ready): with the server running and answering, a
\* stable leader, no lost write and passes scheduled again and again on
\* every unit, the system eventually is Ready and stays Ready.
C19_ProgressToReady == <>[]Ready

\* C20 (opportunistic_restart honours the gate): opportunistic_restart
\* issues service_restart exactly when its can_restart() returned true,
\* else service_start; and the service it restarts is never one that, with
\* the unsafe flag unset, is running with its server initialised and
\* unsealed.
C20_RestartHonoursGate ==
    \A p \in Units :
        (u[p].op = "opportunistic_restart" /\ u[p].pc = "done"
         /\ u[p].outcome = "returned")
        => /\ u[p].acted = IF u[p].safe_restart THEN "service_restart"
                           ELSE "service_start"
           /\ u[p].acted = "service_restart" => ~u[p].hitReady

\* opportunistic_restart found the service running, the unsafe flag unset
\* and its server initialised and unsealed, and issued service_start only.
C20_Witness ==
    \E p \in Units :
        /\ u[p].op = "opportunistic_restart" /\ u[p].pc = "done"
        /\ u[p].outcome = "returned"
        /\ u[p].hitReady /\ u[p].acted = "service_start"
        /\ running[p] /\ ~vault.sealed[p]

=============================================================================
